---- MODULE Spec2Model ----
(***************************************************************************)
(* RNAdapter (src/keycloak/adapter.ts): the React Native adapter of a      *)
(* Keycloak client.  One call of the adapter is in flight at a time; every *)
(* `await` of the code is a suspension point, so each operation is a start *)
(* action (the code up to its first await) followed by one action per      *)
(* awaited promise, in which the environment settles the promise and the   *)
(* code runs on to its next await or to its end.                           *)
(*                                                                         *)
(* Strings that the code takes apart or builds (URLs, error messages) are  *)
(* sequences of text pieces, so that replace and concatenation are real    *)
(* operations on them.                                                     *)
(***************************************************************************)
EXTENDS Naturals, Sequences, FiniteSets

VARIABLES
    idToken,            \* this.client.idToken
    clientRedirectUri,  \* this.client.redirectUri
    inAppBrowserOptions,\* this.initOptions.inAppBrowserOptions
    pc,                 \* position of the call in flight
    op,                 \* the adapter method in flight
    options,            \* its options argument
    tokenUrl,           \* fetchTokens/refreshTokens argument
    params,             \* fetchTokens/refreshTokens argument
    url,                \* loginUrl / logoutUrl / registerUrl
    available,          \* what InAppBrowser.isAvailable() answered
    res,                \* what InAppBrowser.openAuth() returned
    tokenRes,           \* what fetch() returned
    calls,              \* collaborator calls made by the call in flight
    results,            \* how those collaborator calls ended
    outcome,            \* how the call in flight settled
    idTokenAtCall       \* client.idToken when the call started

vars == <<idToken, clientRedirectUri, inAppBrowserOptions, pc, op, options,
          tokenUrl, params, url, available, res, tokenRes, calls, results,
          outcome, idTokenAtCall>>

-----------------------------------------------------------------------------
(* Values *)

\* JavaScript's undefined, for string-valued fields.
Undefined == "undefined"

\* A falsy string: undefined or ''.
Falsy(v) == v \in {Undefined, ""}

\* Bound: the number of query parameters of a logout URL.
MaxParams == 2

Tokens == {"T1", "T2"}
IdTokenValues == {Undefined, ""} \cup Tokens
RedirectUris == {Undefined, "", "app://client"}
OptionRedirectUris == {Undefined, "", "app://option"}

\* The options argument: absent, or a record with an optional redirectUri.
NoOptions == [present |-> FALSE, redirectUri |-> Undefined]
OptionValues ==
    {NoOptions} \cup {[present |-> TRUE, redirectUri |-> r] : r \in OptionRedirectUris}

\* new Error(m), and a thrown value that is no Error (adapter.ts throws a
\* bare string in accountManagement).
Err(m) == [isError |-> TRUE, message |-> m]
ThrownValue == [isError |-> FALSE, message |-> <<>>]
EnvFailures == {Err(<<"network request failed">>), Err(<<>>), ThrownValue}
NoFailure == [isError |-> FALSE, message |-> <<"none">>]

\* The empty string / a missing URL.
NoUrl == <<>>

LoginUrls == {<<"https://kc/auth", "?", "redirect_uri", "=", "x">>}
RegisterUrls == {<<"https://kc/registrations", "?", "redirect_uri", "=", "x">>}
CallbackUrls == {<<"app://client", "?", "code", "=", "x">>, <<"app://client", "?", "error", "=", "x">>}

\* What InAppBrowser.openAuth resolves with.
BrowserResultTypes == {"success", "cancel", "dismiss", "other"}
BrowserResults == [type : BrowserResultTypes, url : {NoUrl} \cup CallbackUrls]
NoResult == [type |-> "none", url |-> NoUrl]

\* What client.parseCallback returns.
OAuthValues == {"oauth:code", "oauth:error", Undefined}

Void == "void"

Pending == [state |-> "pending", value |-> Void, error |-> NoFailure]
Resolved(v) == [state |-> "resolved", value |-> v, error |-> NoFailure]
Rejected(e) == [state |-> "rejected", value |-> Void, error |-> e]

\* Entries of the call log and of the result log.
Call(fn, a, b) == [fn |-> fn, a |-> a, b |-> b]
Returned(fn, v) == [fn |-> fn, threw |-> FALSE, value |-> v, error |-> NoFailure]
Threw(fn, e) == [fn |-> fn, threw |-> TRUE, value |-> Void, error |-> e]

CallsOf(fn) == SelectSeq(calls, LAMBDA c : c.fn = fn)
ResultsOf(fn) == SelectSeq(results, LAMBDA r : r.fn = fn)
WasCalled(fn) == Len(CallsOf(fn)) > 0

-----------------------------------------------------------------------------
(* State *)

Init ==
    /\ idToken \in IdTokenValues
    /\ clientRedirectUri \in RedirectUris
    /\ inAppBrowserOptions \in {Undefined, "modal"}
    /\ pc = "idle"
    /\ op = "none"
    /\ options = NoOptions
    /\ tokenUrl = Undefined
    /\ params = Undefined
    /\ url = NoUrl
    /\ available = "unknown"
    /\ res = NoResult
    /\ tokenRes = [received |-> FALSE, ok |-> FALSE, body |-> ""]
    /\ calls = <<>>
    /\ results = <<>>
    /\ outcome = Pending
    /\ idTokenAtCall = idToken

config == <<clientRedirectUri, inAppBrowserOptions>>

\* The call in flight settles.
Settle(o) ==
    /\ pc' = "done"
    /\ outcome' = o

\* A call starts: its arguments are recorded, the logs are empty.
Begin(name, o) ==
    /\ pc = "idle"
    /\ op' = name
    /\ options' = o
    /\ idTokenAtCall' = idToken

-----------------------------------------------------------------------------
(* login *)

\* adapter.ts:55  res.type === 'success' && res.url
IsSuccessWithUrlNoUrlCheck(r) == r.type = "success"
IsSuccessWithUrl(r) == r.type = "success" /\ r.url # NoUrl

BrowserNotAvailable == Err(<<"InAppBrowser not available">>)
UserClosedBrowser == Err(<<"User has closed the browser">>)
AuthenticationFlowFailed == Err(<<"Authentication flow failed">>)
RegistrationFlowFailed == Err(<<"Registration flow failed">>)

\* adapter.ts:60-64: what login throws for an outcome that is no success
\* with a URL.
LoginFailure(r) ==
    IF r.type = "cancel" THEN UserClosedBrowser ELSE AuthenticationFlowFailed

\* adapter.ts:125: what register throws for such an outcome.
RegisterFailureLikeLogin(r) ==
    IF r.type = "cancel" THEN UserClosedBrowser ELSE RegistrationFlowFailed
RegisterFailure(r) == RegistrationFlowFailed

\* adapter.ts:65-66 / 126-127: the branch taken when isAvailable is false.
UnavailableFallsBack(name) ==
    /\ calls' = Append(calls, Call("openURL", url, Undefined))
    /\ results' = Append(results, Returned("isAvailable", FALSE))
    /\ Settle(Resolved(Void))
Unavailable(name) ==
    /\ calls' = calls
    /\ results' = Append(results, Returned("isAvailable", FALSE))
    /\ Settle(Rejected(BrowserNotAvailable))

\* The code of login and register up to `await InAppBrowser.isAvailable()`:
\* the client builds the URL (or throws), then isAvailable is called.
StartAuth(name, builder, urls, o) ==
    /\ Begin(name, o)
    /\ \/ \E u \in urls :
            /\ url' = u
            /\ calls' = <<Call(builder, o, Undefined), Call("isAvailable", Undefined, Undefined)>>
            /\ results' = <<Returned(builder, u)>>
            /\ pc' = name \o "_isAvailable"
            /\ outcome' = Pending
       \/ \E e \in EnvFailures :
            /\ url' = NoUrl
            /\ calls' = <<Call(builder, o, Undefined)>>
            /\ results' = <<Threw(builder, e)>>
            /\ Settle(Rejected(e))
    /\ UNCHANGED <<idToken, config, tokenUrl, params, available, res, tokenRes>>

\* isAvailable settles; when true, openAuth is called and awaited.
AuthAvailable(name) ==
    /\ pc = name \o "_isAvailable"
    /\ \/ /\ available' = "true"
          /\ calls' = Append(calls, Call("openAuth", url, <<clientRedirectUri, inAppBrowserOptions>>))
          /\ results' = Append(results, Returned("isAvailable", TRUE))
          /\ pc' = name \o "_openAuth"
          /\ outcome' = outcome
       \/ /\ available' = "false"
          /\ Unavailable(name)
       \/ \E e \in EnvFailures :
            /\ available' = "rejected"
            /\ calls' = calls
            /\ results' = Append(results, Threw("isAvailable", e))
            /\ Settle(Rejected(e))
    /\ UNCHANGED <<idToken, config, op, options, tokenUrl, params, url, res,
                   tokenRes, idTokenAtCall>>

\* openAuth settles; on success with a URL the callback is parsed and
\* handed to processCallback, whose promise the operation returns.
AuthOpened(name) ==
    /\ pc = name \o "_openAuth"
    /\ \/ \E r \in BrowserResults :
            /\ res' = r
            /\ IF IsSuccessWithUrl(r)
               THEN \/ \E oauth \in OAuthValues :
                         /\ calls' = calls \o <<Call("parseCallback", r.url, Undefined),
                                                Call("processCallback", oauth, Undefined)>>
                         /\ results' = results \o <<Returned("openAuth", r),
                                                    Returned("parseCallback", oauth)>>
                         /\ pc' = name \o "_processCallback"
                         /\ outcome' = outcome
                    \/ \E e \in EnvFailures :
                         /\ calls' = Append(calls, Call("parseCallback", r.url, Undefined))
                         /\ results' = results \o <<Returned("openAuth", r),
                                                    Threw("parseCallback", e)>>
                         /\ Settle(Rejected(e))
               ELSE /\ calls' = calls
                    /\ results' = Append(results, Returned("openAuth", r))
                    /\ Settle(Rejected(IF name = "login" THEN LoginFailure(r)
                                                         ELSE RegisterFailure(r)))
       \/ \E e \in EnvFailures :
            /\ res' = res
            /\ calls' = calls
            /\ results' = Append(results, Threw("openAuth", e))
            /\ Settle(Rejected(e))
    /\ UNCHANGED <<idToken, config, op, options, tokenUrl, params, url,
                   available, tokenRes, idTokenAtCall>>

\* processCallback settles: it stores the tokens and resolves, or rejects.
AuthProcessed(name) ==
    /\ pc = name \o "_processCallback"
    /\ \/ \E t \in Tokens :
            /\ idToken' = t
            /\ results' = Append(results, Returned("processCallback", Void))
            /\ Settle(Resolved(Void))
       \/ \E e \in EnvFailures :
            /\ idToken' = idToken
            /\ results' = Append(results, Threw("processCallback", e))
            /\ Settle(Rejected(e))
    /\ UNCHANGED <<config, op, options, tokenUrl, params, url, available, res,
                   tokenRes, calls, idTokenAtCall>>

login == \E o \in OptionValues : StartAuth("login", "createLoginUrl", LoginUrls, o)
login_isAvailable == AuthAvailable("login")
login_openAuth == AuthOpened("login")
login_processCallback == AuthProcessed("login")

-----------------------------------------------------------------------------
(* register *)

register == \E o \in OptionValues : StartAuth("register", "createRegisterUrl", RegisterUrls, o)
register_isAvailable == AuthAvailable("register")
register_openAuth == AuthOpened("register")
register_processCallback == AuthProcessed("register")

-----------------------------------------------------------------------------
(* logout *)

\* URLs that client.createLogoutUrl can return: a base, '?', and one to
\* MaxParams parameters name=value joined by '&'.  The text 'redirect_uri'
\* is a piece of its own wherever it occurs, so 'post_logout_redirect_uri'
\* is the two pieces 'post_logout_' 'redirect_uri'.
ParamNames == {<<"redirect_uri">>, <<"post_logout_", "redirect_uri">>, <<"client_id">>}
ParamValues == {"app", "redirect_uri"}
UrlParams == {n \o <<"=", v>> : n \in ParamNames, v \in ParamValues}
UrlBases == {<<"https://kc/logout">>, <<"https://kc/", "redirect_uri", "/logout">>}

RECURSIVE JoinParams(_)
JoinParams(ps) ==
    IF Len(ps) = 1 THEN ps[1] ELSE ps[1] \o <<"&">> \o JoinParams(Tail(ps))

ParamLists == UNION {[1..n -> UrlParams] : n \in 1..MaxParams}
LogoutUrls == {b \o <<"?">> \o JoinParams(ps) : b \in UrlBases, ps \in ParamLists}

\* String.prototype.replace with a string pattern: the first occurrence only.
Occurrences(s, pat) == {i \in DOMAIN s : s[i] = pat}
ReplaceFirst(s, pat, rep) ==
    IF Occurrences(s, pat) = {} THEN s
    ELSE LET i == CHOOSE k \in Occurrences(s, pat) : \A j \in Occurrences(s, pat) : k <= j
         IN  SubSeq(s, 1, i - 1) \o rep \o SubSeq(s, i + 1, Len(s))

\* adapter.ts:83
RewriteLogoutUrlNoHint(L, T) ==
    ReplaceFirst(L, "redirect_uri", <<"post_logout_", "redirect_uri">>)
RewriteLogoutUrl(L, T) ==
    ReplaceFirst(L, "redirect_uri", <<"post_logout_", "redirect_uri">>)
        \o <<"&", "id_token_hint", "=", T>>

\* adapter.ts:74  !this.client || !this.client.idToken  (the client is
\* always there: the constructor stores it).
MissingTokenUndefinedOnly(t) == t = Undefined
MissingToken(t) == Falsy(t)

MissingTokenError == Err(<<"Keycloak instance or ID token is missing.">>)
NoLogoutUrlError == Err(<<"Unable to create logout URL.">>)
LogoutInBrowserFailed == Err(<<"Logout process failed in InAppBrowser.">>)

\* adapter.ts:99-105: the catch block of logout.
WrapLogoutErrorRethrow(e) == e
WrapLogoutError(e) ==
    IF e.isError
    THEN Err(<<"Logout process failed: ">> \o e.message)
    ELSE Err(<<"An unknown error occurred during logout.">>)

\* adapter.ts:88-94: what logout does with the outcome of openAuth.
LogoutBrowserOutcomeDismissClears(type) ==
    IF type \in {"success", "dismiss"} THEN "clearToken"
    ELSE IF type = "cancel" THEN "closed"
    ELSE "failed"
LogoutBrowserOutcome(type) ==
    IF type = "success" THEN "clearToken"
    ELSE IF type \in {"cancel", "dismiss"} THEN "closed"
    ELSE "failed"

\* a || b
OrElse(a, b) == IF Falsy(a) THEN b ELSE a

\* this.client.clearToken(), called after the collaborator result `r`; it
\* drops the tokens, or throws (before or after dropping them).
ClearTokenAfter(r) ==
    /\ calls' = Append(calls, Call("clearToken", Undefined, Undefined))
    /\ \/ /\ idToken' = Undefined
          /\ results' = results \o <<r, Returned("clearToken", Void)>>
          /\ Settle(Resolved(Void))
       \/ \E e \in EnvFailures :
            /\ idToken' \in {idToken, Undefined}
            /\ results' = results \o <<r, Threw("clearToken", e)>>
            /\ Settle(Rejected(WrapLogoutError(e)))

\* A failure inside the try block, after the collaborator result `r`.
LogoutFails(r, e) ==
    /\ calls' = calls
    /\ idToken' = idToken
    /\ results' = Append(results, r)
    /\ Settle(Rejected(WrapLogoutError(e)))

\* adapter.ts:96-98 when Linking.openURL rejects: the await throws.
OpenUrlRejectedIgnored(e) == ClearTokenAfter(Threw("openURL", e))
OpenUrlRejected(e) == LogoutFails(Threw("openURL", e), e)

\* adapter.ts:73-85: up to `await InAppBrowser.isAvailable()`.
logout ==
    \E o \in OptionValues :
        /\ Begin("logout", o)
        /\ IF MissingToken(idToken)
           THEN /\ url' = NoUrl
                /\ calls' = <<>>
                /\ results' = <<>>
                /\ Settle(Rejected(WrapLogoutError(MissingTokenError)))
           ELSE \/ \E L \in LogoutUrls :
                     /\ url' = RewriteLogoutUrl(L, idToken)
                     /\ calls' = <<Call("createLogoutUrl", o, Undefined),
                                   Call("isAvailable", Undefined, Undefined)>>
                     /\ results' = <<Returned("createLogoutUrl", L)>>
                     /\ pc' = "logout_isAvailable"
                     /\ outcome' = Pending
                \/ /\ url' = NoUrl
                   /\ calls' = <<Call("createLogoutUrl", o, Undefined)>>
                   /\ results' = <<Returned("createLogoutUrl", NoUrl)>>
                   /\ Settle(Rejected(WrapLogoutError(NoLogoutUrlError)))
                \/ \E e \in EnvFailures :
                     /\ url' = NoUrl
                     /\ calls' = <<Call("createLogoutUrl", o, Undefined)>>
                     /\ results' = <<Threw("createLogoutUrl", e)>>
                     /\ Settle(Rejected(WrapLogoutError(e)))
        /\ UNCHANGED <<idToken, config, tokenUrl, params, available, res, tokenRes>>

\* adapter.ts:85-86, 95-96: isAvailable settles; openAuth or openURL is
\* called and awaited.
logout_isAvailable ==
    /\ pc = "logout_isAvailable"
    /\ \/ /\ available' = "true"
          /\ calls' = Append(calls, Call("openAuth", url,
                                OrElse(options.redirectUri, clientRedirectUri)))
          /\ results' = Append(results, Returned("isAvailable", TRUE))
          /\ pc' = "logout_openAuth"
          /\ outcome' = outcome
       \/ /\ available' = "false"
          /\ calls' = Append(calls, Call("openURL", url, Undefined))
          /\ results' = Append(results, Returned("isAvailable", FALSE))
          /\ pc' = "logout_openURL"
          /\ outcome' = outcome
       \/ \E e \in EnvFailures :
            /\ available' = "rejected"
            /\ calls' = calls
            /\ results' = Append(results, Threw("isAvailable", e))
            /\ Settle(Rejected(WrapLogoutError(e)))
    /\ UNCHANGED <<idToken, config, op, options, tokenUrl, params, url, res,
                   tokenRes, idTokenAtCall>>

\* adapter.ts:86-94: openAuth settles.
logout_openAuth ==
    /\ pc = "logout_openAuth"
    /\ \/ \E r \in BrowserResults :
            /\ res' = r
            /\ CASE LogoutBrowserOutcome(r.type) = "clearToken" ->
                      ClearTokenAfter(Returned("openAuth", r))
                 [] LogoutBrowserOutcome(r.type) = "closed" ->
                      LogoutFails(Returned("openAuth", r), UserClosedBrowser)
                 [] OTHER ->
                      LogoutFails(Returned("openAuth", r), LogoutInBrowserFailed)
       \/ \E e \in EnvFailures :
            /\ res' = res
            /\ LogoutFails(Threw("openAuth", e), e)
    /\ UNCHANGED <<config, op, options, tokenUrl, params, url, available,
                   tokenRes, idTokenAtCall>>

\* adapter.ts:96-97: Linking.openURL settles.
logout_openURL ==
    /\ pc = "logout_openURL"
    /\ \/ ClearTokenAfter(Returned("openURL", Void))
       \/ \E e \in EnvFailures : OpenUrlRejected(e)
    /\ UNCHANGED <<config, op, options, tokenUrl, params, url, available, res,
                   tokenRes, idTokenAtCall>>

-----------------------------------------------------------------------------
(* fetchTokens, refreshTokens *)

TokenUrls == {"https://kc/token"}
FormBodies == {"grant_type=authorization_code&code=x", "grant_type=refresh_token&refresh_token=y"}

\* Response bodies, and Response.json() on them: the parsed value, or a
\* rejection when the body is no JSON.
ResponseBodies == {"{\"id_token\":\"T1\"}", "{\"error\":\"invalid_grant\"}", "<html>"}
ParseJSON(body) ==
    CASE body = "{\"id_token\":\"T1\"}" -> [parsed |-> TRUE, value |-> <<<<"id_token", "T1">>>>]
      [] body = "{\"error\":\"invalid_grant\"}" -> [parsed |-> TRUE, value |-> <<<<"error", "invalid_grant">>>>]
      [] OTHER -> [parsed |-> FALSE, value |-> <<>>]
JSONParseError == Err(<<"JSON Parse error">>)

Responses == [received : {TRUE}, ok : BOOLEAN, body : ResponseBodies]

\* adapter.ts:165 / 181: the error for a response that is not ok.
TokenRequestFailedSwapped(name) ==
    IF name = "fetchTokens" THEN Err(<<"refreshTokens failed">>) ELSE Err(<<"fetchTokens failed">>)
TokenRequestFailed(name) ==
    IF name = "fetchTokens" THEN Err(<<"fetchTokens failed">>) ELSE Err(<<"refreshTokens failed">>)

\* adapter.ts:157-163 / 173-179: the POST is issued and awaited.
StartTokenRequest(name) ==
    \E u \in TokenUrls, p \in FormBodies :
        /\ Begin(name, NoOptions)
        /\ tokenUrl' = u
        /\ params' = p
        /\ calls' = <<Call("fetch", u, [method |-> "POST",
                                        contentType |-> "application/x-www-form-urlencoded",
                                        body |-> p])>>
        /\ results' = <<>>
        /\ pc' = name \o "_fetch"
        /\ outcome' = Pending
        /\ UNCHANGED <<idToken, config, url, available, res, tokenRes>>

\* fetch settles; an ok response is asked for its JSON.
TokenResponse(name) ==
    /\ pc = name \o "_fetch"
    /\ \/ \E r \in Responses :
            /\ tokenRes' = r
            /\ results' = Append(results, Returned("fetch", r))
            /\ IF ~r.ok
               THEN /\ calls' = calls
                    /\ Settle(Rejected(TokenRequestFailed(name)))
               ELSE /\ calls' = Append(calls, Call("json", Undefined, Undefined))
                    /\ pc' = name \o "_json"
                    /\ outcome' = outcome
       \/ \E e \in EnvFailures :
            /\ tokenRes' = tokenRes
            /\ calls' = calls
            /\ results' = Append(results, Threw("fetch", e))
            /\ Settle(Rejected(e))
    /\ UNCHANGED <<idToken, config, op, options, tokenUrl, params, url,
                   available, res, idTokenAtCall>>

\* tokenRes.json() settles.
TokenJson(name) ==
    /\ pc = name \o "_json"
    /\ IF ParseJSON(tokenRes.body).parsed
       THEN /\ results' = Append(results, Returned("json", ParseJSON(tokenRes.body).value))
            /\ Settle(Resolved(ParseJSON(tokenRes.body).value))
       ELSE /\ results' = Append(results, Threw("json", JSONParseError))
            /\ Settle(Rejected(JSONParseError))
    /\ UNCHANGED <<idToken, config, op, options, tokenUrl, params, url,
                   available, res, tokenRes, calls, idTokenAtCall>>

fetchTokens == StartTokenRequest("fetchTokens")
fetchTokens_fetch == TokenResponse("fetchTokens")
fetchTokens_json == TokenJson("fetchTokens")

refreshTokens == StartTokenRequest("refreshTokens")
refreshTokens_fetch == TokenResponse("refreshTokens")
refreshTokens_json == TokenJson("refreshTokens")

-----------------------------------------------------------------------------
(* redirectUri *)

\* adapter.ts:196-206
redirectUriClientFirst(o, clientUri) ==
    IF ~Falsy(clientUri) THEN clientUri
    ELSE IF o.present /\ ~Falsy(o.redirectUri) THEN o.redirectUri
    ELSE ""
redirectUri(o, clientUri) ==
    IF o.present /\ ~Falsy(o.redirectUri) THEN o.redirectUri
    ELSE IF ~Falsy(clientUri) THEN clientUri
    ELSE ""

\* A call of redirectUri: synchronous, it returns at once.
redirectUriCall ==
    \E o \in OptionValues :
        /\ Begin("redirectUri", o)
        /\ calls' = <<>>
        /\ results' = <<>>
        /\ Settle(Resolved(redirectUri(o, clientRedirectUri)))
        /\ UNCHANGED <<idToken, config, tokenUrl, params, url, available, res, tokenRes>>

-----------------------------------------------------------------------------
\* The caller has seen the outcome; the adapter is idle again.
Return ==
    /\ pc = "done"
    /\ pc' = "idle"
    /\ op' = "none"
    /\ options' = NoOptions
    /\ tokenUrl' = Undefined
    /\ params' = Undefined
    /\ url' = NoUrl
    /\ available' = "unknown"
    /\ res' = NoResult
    /\ tokenRes' = [received |-> FALSE, ok |-> FALSE, body |-> ""]
    /\ calls' = <<>>
    /\ results' = <<>>
    /\ outcome' = Pending
    /\ idTokenAtCall' = idToken
    /\ UNCHANGED <<idToken, config>>

Next ==
    \/ login \/ login_isAvailable \/ login_openAuth \/ login_processCallback
    \/ register \/ register_isAvailable \/ register_openAuth \/ register_processCallback
    \/ logout \/ logout_isAvailable \/ logout_openAuth \/ logout_openURL
    \/ fetchTokens \/ fetchTokens_fetch \/ fetchTokens_json
    \/ refreshTokens \/ refreshTokens_fetch \/ refreshTokens_json
    \/ redirectUriCall
    \/ Return

Spec == Init /\ [][Next]_vars

-----------------------------------------------------------------------------
(* Properties *)

Done(name) == pc = "done" /\ op = name
AuthOps == {"login", "register"}
Message(m) == [isError |-> TRUE, message |-> m]
RejectedWith(m) == outcome.state = "rejected" /\ outcome.error = Message(m)

\* C1: in login and register, parseCallback is called exactly when openAuth
\* returned a success carrying a non-empty URL, once and with that URL; the
\* value it returns is handed to processCallback, once, and the operation
\* settles as that processCallback call settles; no other operation and no
\* other case calls either of them.
C1_CallbackForwarded ==
    LET successCase == op \in AuthOps /\ res.type = "success" /\ res.url # NoUrl
        parsed == ResultsOf("parseCallback")
        processed == ResultsOf("processCallback")
    IN  /\ CallsOf("parseCallback") =
              (IF successCase THEN <<Call("parseCallback", res.url, Undefined)>> ELSE <<>>)
        /\ CallsOf("processCallback") =
              (IF successCase /\ ~parsed[1].threw
               THEN <<Call("processCallback", parsed[1].value, Undefined)>> ELSE <<>>)
        /\ (WasCalled("processCallback") /\ pc = "done") =>
              /\ Len(processed) = 1
              /\ outcome.state = (IF processed[1].threw THEN "rejected" ELSE "resolved")
              /\ outcome.error = processed[1].error
        /\ (WasCalled("processCallback") /\ pc # "done") => outcome.state = "pending"

C1_Witness ==
    /\ Done("register")
    /\ res.type = "success"
    /\ WasCalled("processCallback")
    /\ outcome.state = "rejected"

\* C2: a logout call made with an empty or absent idToken has rejected
\* without calling any collaborator, and the idToken is as it was.
C2_LogoutNeedsToken ==
    (op = "logout" /\ idTokenAtCall \in {Undefined, ""}) =>
        /\ pc = "done"
        /\ outcome.state = "rejected"
        /\ calls = <<>>
        /\ idToken = idTokenAtCall

C2_Witness == Done("logout") /\ idTokenAtCall = "" /\ outcome.state = "rejected"

C4_CancelAsymmetry ==
    /\ (op = "login" /\ res.type = "cancel") =>
          /\ pc = "done"
          /\ RejectedWith(<<"User has closed the browser">>)
          /\ ~WasCalled("parseCallback") /\ ~WasCalled("processCallback")
    /\ (op = "register" /\ res.type = "cancel") =>
          /\ pc = "done"
          /\ RejectedWith(<<"Registration flow failed">>)
          /\ ~WasCalled("parseCallback") /\ ~WasCalled("processCallback")
    /\ (op = "register" /\ res.type \in {"dismiss", "other"}) =>
          RejectedWith(<<"Registration flow failed">>)
    /\ (op = "register" /\ res.type = "success" /\ res.url = NoUrl) =>
          RejectedWith(<<"Registration flow failed">>)

C4_Witness == Done("register") /\ res.type = "cancel"

\* The failure raised inside logout's try block, if any: a collaborator
\* that threw or rejected, or one of the errors logout throws itself.
LogoutStepFailed ==
    \/ idTokenAtCall \in {Undefined, ""}
    \/ \E i \in DOMAIN results : results[i].threw
    \/ \E i \in DOMAIN results : results[i].fn = "createLogoutUrl" /\ results[i].value = NoUrl
    \/ res.type \in {"cancel", "dismiss", "other"}

LogoutUnderlyingFailure ==
    IF idTokenAtCall \in {Undefined, ""}
    THEN Message(<<"Keycloak instance or ID token is missing.">>)
    ELSE IF \E i \in DOMAIN results : results[i].threw
    THEN results[CHOOSE i \in DOMAIN results : results[i].threw].error
    ELSE IF results[1].value = NoUrl
    THEN Message(<<"Unable to create logout URL.">>)
    ELSE IF res.type \in {"cancel", "dismiss"}
    THEN Message(<<"User has closed the browser">>)
    ELSE Message(<<"Logout process failed in InAppBrowser.">>)

\* C5: a logout in which any step failed rejects, with 'Logout process
\* failed: ' followed by the message of the underlying failure when that is
\* an Error, and with 'An unknown error occurred during logout.' when it is a
\* thrown value that carries no Error message; a logout in which no step
\* failed resolves.
C5_UniformLogoutError ==
    Done("logout") =>
        IF LogoutStepFailed
        THEN /\ outcome.state = "rejected"
             /\ outcome.error =
                   (IF LogoutUnderlyingFailure.isError
                    THEN Message(<<"Logout process failed: ">> \o LogoutUnderlyingFailure.message)
                    ELSE Message(<<"An unknown error occurred during logout.">>))
        ELSE outcome.state = "resolved"

C5_Witness ==
    /\ Done("logout")
    /\ WasCalled("clearToken")
    /\ ResultsOf("clearToken")[1].threw
    /\ ~ResultsOf("clearToken")[1].error.isError
    /\ outcome.state = "rejected"

\* The URL createLogoutUrl returned to the logout in flight, and the URL
\* that logout handed to the browser or to the URL opener.
BuiltLogoutUrl == ResultsOf("createLogoutUrl")[1].value
OpenedLogoutUrl ==
    IF WasCalled("openAuth") THEN CallsOf("openAuth")[1].a ELSE CallsOf("openURL")[1].a
LogoutOpened == op = "logout" /\ (WasCalled("openAuth") \/ WasCalled("openURL"))

\* Position i of URL u holds the name of a query parameter.
IsParamName(u, i) ==
    /\ i > 1 /\ i < Len(u)
    /\ u[i - 1] \in {"?", "&"}
    /\ u[i + 1] = "="
HasParamNamed(u, n) == \E i \in DOMAIN u : u[i] = n /\ IsParamName(u, i)

\* URL u with every parameter named 'redirect_uri' renamed.
RECURSIVE RenameFrom(_, _)
RenameFrom(u, i) ==
    IF i > Len(u) THEN <<>>
    ELSE (IF u[i] = "redirect_uri" /\ IsParamName(u, i)
          THEN <<"post_logout_", "redirect_uri">> ELSE <<u[i]>>) \o RenameFrom(u, i + 1)
RenameRedirectParam(u) == RenameFrom(u, 1)

IdTokenHint(T) == <<"&", "id_token_hint", "=", T>>

\* C6 as stated: for a URL returned by createLogoutUrl that has a parameter
\* named 'redirect_uri', the URL logout opens is that URL with the parameter
\* renamed to 'post_logout_redirect_uri' and 'id_token_hint=T' appended, T
\* the idToken held when logout started, and it carries no parameter still
\* named 'redirect_uri'.
C6_RedirectParamRenamed ==
    (LogoutOpened /\ HasParamNamed(BuiltLogoutUrl, "redirect_uri")) =>
        /\ OpenedLogoutUrl = RenameRedirectParam(BuiltLogoutUrl) \o IdTokenHint(idTokenAtCall)
        /\ ~HasParamNamed(OpenedLogoutUrl, "redirect_uri")

\* C6 amended: the URL logout opens is the URL createLogoutUrl returned with
\* the first occurrence of the text 'redirect_uri' replaced by
\* 'post_logout_redirect_uri' (unchanged when it has none) and
\* '&id_token_hint=T' appended, T the idToken held when logout started; when
\* that first occurrence is the name of a parameter and no other parameter
\* has that name, the opened URL is the built one with the parameter renamed
\* and carries no parameter named 'redirect_uri'.
C6_FirstOccurrenceReplaced ==
    LogoutOpened =>
        LET L == BuiltLogoutUrl
            occ == {i \in DOMAIN L : L[i] = "redirect_uri"}
            named == {i \in occ : IsParamName(L, i)}
        IN  /\ idTokenAtCall \in Tokens
            /\ url = OpenedLogoutUrl
            /\ IF occ = {}
               THEN OpenedLogoutUrl = L \o IdTokenHint(idTokenAtCall)
               ELSE \E i \in occ :
                      /\ \A j \in occ : i <= j
                      /\ OpenedLogoutUrl =
                            SubSeq(L, 1, i - 1) \o <<"post_logout_", "redirect_uri">>
                              \o SubSeq(L, i + 1, Len(L)) \o IdTokenHint(idTokenAtCall)
                      /\ (named = {i}) =>
                            /\ ~HasParamNamed(OpenedLogoutUrl, "redirect_uri")
                            /\ OpenedLogoutUrl =
                                  RenameRedirectParam(L) \o IdTokenHint(idTokenAtCall)

C6_Witness ==
    /\ LogoutOpened
    /\ WasCalled("openURL")
    /\ Cardinality({i \in DOMAIN BuiltLogoutUrl : BuiltLogoutUrl[i] = "redirect_uri"}) = 2
    /\ HasParamNamed(BuiltLogoutUrl, "redirect_uri")
    /\ ~HasParamNamed(OpenedLogoutUrl, "redirect_uri")

\* C7: when isAvailable answers false, login and register have rejected
\* with 'InAppBrowser not available' without calling openAuth, the URL
\* opener, parseCallback or processCallback, and the idToken is as it was.
C7_NoFallback ==
    (op \in AuthOps /\ available = "false") =>
        /\ pc = "done"
        /\ RejectedWith(<<"InAppBrowser not available">>)
        /\ ~WasCalled("openAuth") /\ ~WasCalled("openURL")
        /\ ~WasCalled("parseCallback") /\ ~WasCalled("processCallback")
        /\ idToken = idTokenAtCall

C7_Witness == Done("login") /\ available = "false" /\ outcome.state = "rejected"

\* C8: redirectUri(options) returns options.redirectUri when options
\* supplies one, whatever the client has configured; otherwise the client's
\* redirectUri when one is configured; otherwise ''.  It returns (never
\* throws), calls no collaborator and leaves the idToken alone.
C8_RedirectUriResolution ==
    Done("redirectUri") =>
        LET supplied == options.present /\ options.redirectUri \notin {Undefined, ""}
            configured == clientRedirectUri \notin {Undefined, ""}
        IN  /\ outcome.state = "resolved"
            /\ supplied => outcome.value = options.redirectUri
            /\ (~supplied /\ configured) => outcome.value = clientRedirectUri
            /\ (~supplied /\ ~configured) => outcome.value = ""
            /\ calls = <<>>
            /\ idToken = idTokenAtCall

C8_Witness ==
    /\ Done("redirectUri")
    /\ options.redirectUri = "app://option"
    /\ clientRedirectUri = "app://client"
    /\ outcome.value = "app://option"

TokenOps == {"fetchTokens", "refreshTokens"}

\* C9: a call of fetchTokens or refreshTokens issues one HTTP POST, with
\* the form body it was given, and no other; when the response is not ok
\* it rejects with 'fetchTokens failed' (for refreshTokens, 'refreshTokens
\* failed'), and when the response is ok it resolves with the parsed JSON
\* body of that response.
C9_TokenRequest ==
    op \in TokenOps =>
        /\ Len(CallsOf("fetch")) = 1
        /\ CallsOf("fetch")[1].a = tokenUrl
        /\ CallsOf("fetch")[1].b.method = "POST"
        /\ CallsOf("fetch")[1].b.body = params
        /\ (tokenRes.received /\ ~tokenRes.ok) =>
              /\ pc = "done"
              /\ op = "fetchTokens" => RejectedWith(<<"fetchTokens failed">>)
              /\ op = "refreshTokens" => RejectedWith(<<"refreshTokens failed">>)
        /\ (pc = "done" /\ tokenRes.received /\ tokenRes.ok /\ ParseJSON(tokenRes.body).parsed) =>
              /\ outcome.state = "resolved"
              /\ outcome.value = ParseJSON(tokenRes.body).value
        /\ outcome.state = "resolved" => (tokenRes.received /\ tokenRes.ok)

C9_Witness ==
    /\ Done("refreshTokens")
    /\ tokenRes.received /\ ~tokenRes.ok
    /\ outcome.state = "rejected"

\* C10: when the in-app browser is available, logout calls openAuth once
\* and never the URL opener; clearToken is called exactly when openAuth
\* returned a success, and logout then resolves; on cancel or dismiss it
\* rejects with the 'User has closed the browser' failure, on any other
\* outcome with the 'Logout process failed in InAppBrowser.' failure (each
\* wrapped by logout's catch block), and in these rejecting cases clearToken
\* is not called and the idToken is as it was.
C10_BrowserLogout ==
    (op = "logout" /\ available = "true") =>
        /\ Len(CallsOf("openAuth")) = 1
        /\ ~WasCalled("openURL")
        /\ WasCalled("clearToken") <=> res.type = "success"
        /\ (pc = "done" /\ res.type = "success" /\ ~ResultsOf("clearToken")[1].threw) =>
              outcome.state = "resolved"
        /\ res.type \in {"cancel", "dismiss"} =>
              RejectedWith(<<"Logout process failed: ", "User has closed the browser">>)
        /\ res.type = "other" =>
              RejectedWith(<<"Logout process failed: ", "Logout process failed in InAppBrowser.">>)
        /\ (pc = "done" /\ res.type # "success") =>
              /\ outcome.state = "rejected"
              /\ ~WasCalled("clearToken")
              /\ idToken = idTokenAtCall

C10_Witness ==
    /\ Done("logout")
    /\ available = "true"
    /\ res.type = "dismiss"
    /\ outcome.state = "rejected"

====
